---- MODULE Spec2Model ----
(***************************************************************************)
(* A model of the capture utility's text-processing core:                  *)
(*   src/src/util.rs  which, line_nth, get_line, get_nth_from_line,        *)
(*                    Type::from_str, FFMPEGSupport::{parse, decode_line}  *)
(*   src/src/main.rs  find_codec, x11_fullscreen, x11_current_window       *)
(*                                                                         *)
(* A Rust String is modelled as a sequence of characters, each character a *)
(* one-element TLA+ string.  The element "U+00E9" stands for the single    *)
(* character e-acute, which UTF-8 encodes on two bytes: Rust's str::len,   *)
(* str::find and the slices s[a..b] count BYTES, and a slice whose end is  *)
(* not on a character boundary panics.                                     *)
(***************************************************************************)
EXTENDS Integers, Sequences, FiniteSets, TLC

VARIABLES
    \* FFMPEGSupport::parse (util.rs:192-208)
    p_input,      \* lines the child process has still to write to its stdout
    p_out,        \* the (FFMPEGSupport, Type) pairs the iterator has yielded
    p_last,       \* the line read last, and what decode_line made of it
    p_st,         \* "idle" | "running" | "done" | "panicked"
    \* find_codec (main.rs:186-208)
    fc_listing,   \* the argument codecs, as the caller passed it
    fc_names,     \* the argument names
    fc_filter,    \* the argument filter: "encode" | "decode"
    fc_codecs,    \* what the first loop has still to take from codecs
    fc_found,     \* the HashMap found
    fc_pc,        \* "idle" | "scan" | "walk" | "done"
    fc_result,    \* the value returned
    \* which (util.rs:42-58)
    w_PATH,       \* the environment variable PATH: a list of prefixes, or unset
    w_fs,         \* the paths that exist
    w_call,       \* the last call of which: its argument and its result
    \* get_nth_from_line (util.rs:76-102)
    l_lines,      \* the line iterator the caller holds
    l_call,       \* the last call: arguments and outcome
    l_st,         \* "idle" | "running" | "panicked"
    \* x11_fullscreen, x11_current_window (main.rs:102-147)
    r_region,     \* the ScreenRegion asked for
    r_DISPLAY,    \* the environment variable DISPLAY, or unset
    r_pc,         \* the statement the resolver is at
    r_output,     \* the whole output of the tool queried last
    r_lines,      \* the part of that output not yet consumed
    r_tok,        \* the tokens extracted so far
    r_result      \* the (resolution, offset) pair returned

parseVars == <<p_input, p_out, p_last, p_st>>
codecVars == <<fc_listing, fc_names, fc_filter, fc_codecs, fc_found, fc_pc, fc_result>>
whichVars == <<w_PATH, w_fs, w_call>>
lineVars == <<l_lines, l_call, l_st>>
regionVars == <<r_region, r_DISPLAY, r_pc, r_output, r_lines, r_tok, r_result>>

vars == <<parseVars, codecVars, whichVars, lineVars, regionVars>>

-----------------------------------------------------------------------------
(* Strings *)

\* The characters of more than one byte in UTF-8.
MultiByte == {"U+00E9"}

\* char::len_utf8
ByteLen(c) == IF c \in MultiByte THEN 2 ELSE 1

\* char::is_whitespace, on the characters the model uses
is_whitespace(c) == c \in {" ", "\t"}

\* str::len: the length in bytes
RECURSIVE len(_)
len(s) == IF s = <<>> THEN 0 ELSE ByteLen(Head(s)) + len(Tail(s))

\* The byte offset at which character k+1 of s starts (k characters precede it).
ByteOff(s, k) == len(SubSeq(s, 1, k))

\* str::is_char_boundary
is_char_boundary(s, b) == \E k \in 0..Len(s) : ByteOff(s, k) = b

\* The number of characters before byte offset b, a character boundary of s.
CharsBefore(s, b) == CHOOSE k \in 0..Len(s) : ByteOff(s, k) = b

\* The outcome of a byte-range slice s[a..b]: the substring, or a panic when
\* the range is out of bounds or cuts a character.
SliceOk(s, a, b) == a <= b /\ is_char_boundary(s, a) /\ is_char_boundary(s, b)
Slice(s, a, b) == SubSeq(s, CharsBefore(s, a) + 1, CharsBefore(s, b))

\* str::trim_start, str::trim_end, str::trim
RECURSIVE trim_start(_)
trim_start(s) ==
    IF s # <<>> /\ is_whitespace(Head(s)) THEN trim_start(Tail(s)) ELSE s
RECURSIVE trim_end(_)
trim_end(s) ==
    IF s # <<>> /\ is_whitespace(s[Len(s)])
    THEN trim_end(SubSeq(s, 1, Len(s) - 1)) ELSE s
trim(s) == trim_end(trim_start(s))

\* str::find(char::is_whitespace): the byte offset of the first whitespace
\* character, -1 for None.
find_whitespace(s) ==
    IF \E i \in 1..Len(s) : is_whitespace(s[i])
    THEN LET i == CHOOSE j \in 1..Len(s) :
                    /\ is_whitespace(s[j])
                    /\ \A k \in 1..(j - 1) : ~is_whitespace(s[k])
         IN  ByteOff(s, i - 1)
    ELSE -1

\* str::split(sep) for a one-character separator: the pieces between the
\* separators, empty pieces included; never an empty list.
RECURSIVE split(_, _)
split(s, sep) ==
    IF \E i \in 1..Len(s) : s[i] = sep
    THEN LET i == CHOOSE j \in 1..Len(s) :
                    s[j] = sep /\ \A k \in 1..(j - 1) : s[k] # sep
         IN  <<SubSeq(s, 1, i - 1)>> \o split(SubSeq(s, i + 1, Len(s)), sep)
    ELSE <<s>>

\* str::split_whitespace: the maximal runs of non-whitespace characters.
RECURSIVE split_whitespace(_)
split_whitespace(s) ==
    LET t == trim_start(s) IN
    IF t = <<>> THEN <<>>
    ELSE IF \E i \in 1..Len(t) : is_whitespace(t[i])
    THEN LET i == CHOOSE j \in 1..Len(t) :
                    is_whitespace(t[j]) /\ \A k \in 1..(j - 1) : ~is_whitespace(t[k])
         IN  <<SubSeq(t, 1, i - 1)>> \o split_whitespace(SubSeq(t, i, Len(t)))
    ELSE <<t>>

\* str::contains(&str)
contains(s, sub) ==
    \E i \in 0..(Len(s) - Len(sub)) : SubSeq(s, i + 1, i + Len(sub)) = sub

-----------------------------------------------------------------------------
(* Type::from_str, util.rs:121-141 *)

\* The outcomes of a call: a value, or the panic that aborts the process.
Ok(t) == [tag |-> "Ok", type |-> t]
Err == [tag |-> "Err"]
Panic == [tag |-> "Panic"]

from_str(s) ==
    IF s \in {<<"D">>, <<"E">>, <<"D", "E">>} THEN Ok("Format")
    ELSE IF len(s) # 6 THEN Err
    ELSE IF ~SliceOk(s, 0, 1) \/ ~SliceOk(s, 2, 3) THEN Panic
    ELSE LET c0 == Slice(s, 0, 1)
             c2 == Slice(s, 2, 3)
         IN  IF c0 = <<"A">> \/ c2 = <<"A">> THEN Ok("Audio")
             ELSE IF c0 = <<"V">> \/ c2 = <<"V">> THEN Ok("Video")
             ELSE IF c0 = <<"S">> \/ c2 = <<"S">> THEN Ok("Subtitle")
             ELSE Err

-----------------------------------------------------------------------------
(* FFMPEGSupport::decode_line, util.rs:210-238 *)

Some(support, t) == [tag |-> "Some", support |-> support, type |-> t]
None == [tag |-> "None"]

FFMPEGSupport(names, description, decode, encode) ==
    [names |-> names, description |-> description,
     decode |-> decode, encode |-> encode]

\* Flags read off the whole code for every kind of row.
flags_Contains(type_, code) ==
    <<contains(code, <<"D">>), contains(code, <<"E">>)>>

\* The flags of util.rs:225-228, for a code from_str has classified.
flags(type_, code) ==
    IF type_ = "Format"
    THEN <<contains(code, <<"D">>), contains(code, <<"E">>)>>
    ELSE <<Slice(code, 0, 1) = <<"D">>, Slice(code, 1, 2) = <<"E">>>>

\* A decoding that keeps the alias list as one name, commas and all.
decode_line_OneName(line0) ==
    LET line == trim(line0)
        code_end == find_whitespace(line)
    IN
    IF code_end = -1 THEN None
    ELSE
    LET code == trim(Slice(line, 0, code_end))
        type_ == from_str(code)
    IN
    IF type_.tag = "Panic" THEN Panic
    ELSE IF type_.tag = "Err" THEN None
    ELSE
    LET rest == trim(Slice(line, code_end, len(line)))
        names_end == find_whitespace(rest)
    IN
    IF names_end = -1 THEN None
    ELSE
    LET names == <<trim(Slice(rest, 0, names_end))>>
        description == trim(Slice(rest, names_end, len(rest)))
    IN  IF type_.type # "Format" /\ ~(SliceOk(code, 0, 1) /\ SliceOk(code, 1, 2))
        THEN Panic
        ELSE LET de == flags(type_.type, code)
             IN  Some(FFMPEGSupport(names, description, de[1], de[2]), type_.type)

\* decode_line: Some((support, type)), None for a line that is no data row, or
\* a panic.
decode_line(line0) ==
    LET line == trim(line0)
        code_end == find_whitespace(line)
    IN
    IF code_end = -1 THEN None
    ELSE
    LET code == trim(Slice(line, 0, code_end))
        type_ == from_str(code)
    IN
    IF type_.tag = "Panic" THEN Panic
    ELSE IF type_.tag = "Err" THEN None
    ELSE
    LET rest == trim(Slice(line, code_end, len(line)))
        names_end == find_whitespace(rest)
    IN
    IF names_end = -1 THEN None
    ELSE
    LET names == split(trim(Slice(rest, 0, names_end)), ",")
        description == trim(Slice(rest, names_end, len(rest)))
    IN  IF type_.type # "Format" /\ ~(SliceOk(code, 0, 1) /\ SliceOk(code, 1, 2))
        THEN Panic
        ELSE LET de == flags(type_.type, code)
             IN  Some(FFMPEGSupport(names, description, de[1], de[2]), type_.type)

-----------------------------------------------------------------------------
(* Lines of the transcoder's capability listing *)

\* "V....D 264,h264          H.264 / AVC"
Line_h264 ==
    <<"V", ".", ".", ".", ".", "D", " ", "2", "6", "4", ",", "h", "2", "6", "4", " ", " ",
      " ", " ", " ", " ", " ", " ", " ", " ", "H", ".", "2", "6", "4", " ", "/", " ", "A",
      "V", "C">>

\* " DE matroska,webm   Matroska / WebM"
Line_matroska ==
    <<" ", "D", "E", " ", "m", "a", "t", "r", "o", "s", "k", "a", ",", "w", "e", "b", "m",
      " ", " ", " ", "M", "a", "t", "r", "o", "s", "k", "a", " ", "/", " ", "W", "e", "b",
      "M">>

\* " D  x11grab         X11 screen capture"
Line_x11grab ==
    <<" ", "D", " ", " ", "x", "1", "1", "g", "r", "a", "b", " ", " ", " ", " ", " ", " ",
      " ", " ", " ", "X", "1", "1", " ", "s", "c", "r", "e", "e", "n", " ", "c", "a", "p",
      "t", "u", "r", "e">>

\* " E  mp4             MP4"
Line_mp4 ==
    <<" ", "E", " ", " ", "m", "p", "4", " ", " ", " ", " ", " ", " ", " ", " ", " ", " ",
      " ", " ", " ", "M", "P", "4">>

\* "File formats:"
Line_banner ==
    <<"F", "i", "l", "e", " ", "f", "o", "r", "m", "a", "t", "s", ":">>

\* " --"
Line_rule ==
    <<" ", "-", "-">>

\* "D.V... h264"
Line_noDescription ==
    <<"D", ".", "V", ".", ".", ".", " ", "h", "2", "6", "4">>

\* "ED x y"
Line_swapped ==
    <<"E", "D", " ", "x", " ", "y">>

\* "DEV.LS. x y"
Line_seven ==
    <<"D", "E", "V", ".", "L", "S", ".", " ", "x", " ", "y">>

\* "V.A... x y"
Line_audioFirst ==
    <<"V", ".", "A", ".", ".", ".", " ", "x", " ", "y">>

\* "..S... srt SubRip"
Line_subtitle ==
    <<".", ".", "S", ".", ".", ".", " ", "s", "r", "t", " ", "S", "u", "b", "R", "i", "p">>

\* "é.... x y"
Line_accentFirst ==
    <<"U+00E9", ".", ".", ".", ".", " ", "x", " ", "y">>

\* "Vé... x y"
Line_accentSecond ==
    <<"V", "U+00E9", ".", ".", ".", " ", "x", " ", "y">>

\* "A...é x y"
Line_accentLast ==
    <<"A", ".", ".", ".", "U+00E9", " ", "x", " ", "y">>

\* "A....é x y"
Line_accentSeven ==
    <<"A", ".", ".", ".", ".", "U+00E9", " ", "x", " ", "y">>

\* The 6-character codes of a codec or encoder row: a decode or kind marker,
\* an encode marker, a kind marker, and three further flags.
Codes6 ==
    {<<c0, c1, c2, ".", ".", ".">> :
        c0 \in {"D", "A", "."}, c1 \in {"E", "."}, c2 \in {"V", "S", "."}}

\* A row with the given code, one name and a description.
Row(code) == code \o <<" ", "n", " ", "d">>

LinePool ==
    {Line_h264,
     Line_matroska,
     Line_x11grab,
     Line_mp4,
     Line_banner,
     Line_rule,
     Line_noDescription,
     Line_swapped,
     Line_seven,
     Line_audioFirst,
     Line_subtitle,
     Line_accentFirst,
     Line_accentSecond,
     Line_accentLast,
     Line_accentSeven}
    \cup {Row(code) : code \in Codes6}

\* The longest listing the model lets the child process write.
MaxLines == 2

\* The sequences over S of length at most n.
SeqUpTo(S, n) == UNION {[1..k -> S] : k \in 0..n}

-----------------------------------------------------------------------------
(* Values shared by the components *)

\* An environment variable that is not set (std::env::var gives Err).
Unset == [set |-> FALSE]
Set(v) == [set |-> TRUE, value |-> v]

\* No call made yet.
NoCall == [called |-> FALSE]

-----------------------------------------------------------------------------
(* find_codec, main.rs:186-208, with FFMPEGSupport::has_name and
   FFMPEGSupport::name, util.rs:162-174 *)

\* "libx264"
N_libx264 ==
    <<"l", "i", "b", "x", "2", "6", "4">>

\* "h264"
N_h264 ==
    <<"h", "2", "6", "4">>

\* "264"
N_264 ==
    <<"2", "6", "4">>

\* "h264_nvenc"
N_h264_nvenc ==
    <<"h", "2", "6", "4", "_", "n", "v", "e", "n", "c">>

\* "h264_qsv"
N_h264_qsv ==
    <<"h", "2", "6", "4", "_", "q", "s", "v">>

\* FFMPEGSupport::has_name
has_name(codec, n) == \E i \in 1..Len(codec.names) : codec.names[i] = n

\* FFMPEGSupport::name
name(codec) == codec.names[1]

\* The filter find_codec is passed: FFMPEGSupport::encode or ::decode.
filter(f, codec) == IF f = "encode" THEN codec.encode ELSE codec.decode

\* HashMap::insert: the entry of key k is set, an earlier one overwritten.
insert(found, k, v) ==
    [x \in DOMAIN found \cup {k} |-> IF x = k THEN v ELSE found[x]]

\* A scan that stops remembering at the first match it meets.
RECURSIVE scan_codec_FirstMatch(_, _, _, _)
scan_codec_FirstMatch(found, codec, names, f) ==
    IF names = <<>> \/ DOMAIN found # {} THEN found
    ELSE scan_codec_FirstMatch(
            IF has_name(codec, Head(names)) /\ filter(f, codec)
            THEN insert(found, Head(names), codec) ELSE found,
            codec, Tail(names), f)

\* The body of the first loop for one codec, main.rs:194-198: the codec is
\* remembered under every candidate name it carries, if it passes the filter.
RECURSIVE scan_codec(_, _, _, _)
scan_codec(found, codec, names, f) ==
    IF names = <<>> THEN found
    ELSE scan_codec(
            IF has_name(codec, Head(names)) /\ filter(f, codec)
            THEN insert(found, Head(names), codec) ELSE found,
            codec, Tail(names), f)

\* A walk that returns the match of the last candidate, not the first.
RECURSIVE walk_LastCandidate(_, _)
walk_LastCandidate(found, names) ==
    IF names = <<>> THEN None
    ELSE IF names[Len(names)] \in DOMAIN found
    THEN [tag |-> "Some", value |-> name(found[names[Len(names)]])]
    ELSE walk_LastCandidate(found, SubSeq(names, 1, Len(names) - 1))

\* The second loop, main.rs:201-207: the canonical name of the codec
\* remembered for the first candidate that has one.
RECURSIVE walk(_, _)
walk(found, names) ==
    IF names = <<>> THEN None
    ELSE IF Head(names) \in DOMAIN found
    THEN [tag |-> "Some", value |-> name(found[Head(names)])]
    ELSE walk(found, Tail(names))

\* The first loop, main.rs:193-199, over a whole listing.
RECURSIVE scan(_, _, _, _)
scan(found, codecs, names, f) ==
    IF codecs = <<>> THEN found
    ELSE scan(scan_codec(found, Head(codecs), names, f), Tail(codecs), names, f)

\* find_codec as a function of its arguments.
find_codec(codecs, names, f) == walk(scan(<<>>, codecs, names, f), names)

\* Capability records, as FFMPEGSupport::video_encoders and ::formats yield.
R_libx264 == FFMPEGSupport(<<N_libx264>>, <<"x">>, FALSE, TRUE)
R_h264 == FFMPEGSupport(<<N_h264>>, <<"y">>, FALSE, TRUE)
R_h264_decoder == FFMPEGSupport(<<N_264, N_h264>>, <<"y">>, TRUE, FALSE)
R_h264_aliases == FFMPEGSupport(<<N_264, N_h264>>, <<"y">>, TRUE, TRUE)
R_nvenc_decoder == FFMPEGSupport(<<N_h264_nvenc>>, <<"z">>, TRUE, FALSE)

RecordPool == {R_libx264, R_h264, R_h264_decoder, R_h264_aliases, R_nvenc_decoder}

\* The candidates of main.rs:64.
VideoCandidates == <<N_h264_nvenc, N_h264_qsv, N_libx264, N_h264>>

CandidateLists ==
    {VideoCandidates, <<N_h264, N_libx264>>, <<N_264, N_h264>>, <<N_h264_nvenc>>}

\* The longest listing find_codec is given.
MaxCodecs == 3

-----------------------------------------------------------------------------
(* which, util.rs:42-58 *)

(* A Path is modelled as the sequence of its components: "/" first for an
   absolute path, "." first for a path written "./...".  The empty sequence is
   the empty path, which PATH gives for an empty prefix. *)

is_absolute(path) == path # <<>> /\ path[1] = "/"

\* Path::starts_with("./"): the first component is the current directory.
starts_with_curdir(path) == path # <<>> /\ path[1] = "."

\* PathBuf::push: an absolute argument replaces the path, any other extends it.
push(prefix, path) == IF is_absolute(path) THEN path ELSE prefix \o path

\* The file a path names: "." components name no directory of their own, and
\* a relative path is taken from the working directory.
RECURSIVE Canonical(_)
Canonical(path) ==
    IF path = <<>> THEN <<>>
    ELSE IF Head(path) = "." THEN Canonical(Tail(path))
    ELSE <<Head(path)>> \o Canonical(Tail(path))

\* Path::exists, in the file system fs.
exists(path, fs) == Canonical(path) \in fs

\* .filter(|path| path.exists()) over the pushed prefixes, in PATH order.
RECURSIVE existing(_, _, _)
existing(prefixes, binary, fs) ==
    IF prefixes = <<>> THEN <<>>
    ELSE LET path == push(Head(prefixes), binary) IN
         (IF exists(path, fs) THEN <<path>> ELSE <<>>)
            \o existing(Tail(prefixes), binary, fs)

\* A resolution that keeps the match of the last PATH directory.
which_LastMatch(binary, PATH, fs) ==
    IF starts_with_curdir(binary) /\ exists(binary, fs)
    THEN [tag |-> "Some", value |-> binary]
    ELSE IF ~PATH.set THEN None
    ELSE LET found == existing(PATH.value, binary, fs) IN
         IF found = <<>> THEN None
         ELSE [tag |-> "Some", value |-> found[Len(found)]]

\* which: the program of the Command returned, or None.
which(binary, PATH, fs) ==
    IF starts_with_curdir(binary) /\ exists(binary, fs)
    THEN [tag |-> "Some", value |-> binary]
    ELSE IF ~PATH.set THEN None
    ELSE LET found == existing(PATH.value, binary, fs) IN
         IF found = <<>> THEN None
         ELSE [tag |-> "Some", value |-> found[1]]

\* The prefixes PATH may list ("" is the empty prefix), the files that may
\* exist, and the names which is asked for.
Prefixes == {<<"/", "usr", "bin">>, <<"/", "opt", "bin">>, <<>>}

Files ==
    {<<"/", "usr", "bin", "ffmpeg">>, <<"/", "opt", "bin", "ffmpeg">>,
     <<"ffmpeg">>, <<"/", "usr", "bin", "xprop">>}

Binaries ==
    {<<"ffmpeg">>, <<"xprop">>, <<".", "ffmpeg">>, <<"/", "opt", "bin", "ffmpeg">>}

\* The most prefixes PATH lists.
MaxPathDirs == 2

-----------------------------------------------------------------------------
(* line_nth, get_line, get_nth_from_line, util.rs:76-102 *)

\* A word count that takes nth as a position counted from 1.
line_nth_FromOne(line, nth) ==
    LET words == split_whitespace(trim(line)) IN
    IF nth >= 1 /\ nth <= Len(words)
    THEN [tag |-> "Ok", value |-> words[nth]] ELSE Panic

\* line_nth: the word at zero-based position nth, or the panic of expect.
line_nth(line, nth) ==
    LET words == split_whitespace(trim(line)) IN
    IF nth < Len(words) THEN [tag |-> "Ok", value |-> words[nth + 1]] ELSE Panic

\* Iterator::skip_while(|s| !predicate(s)), the predicate being
\* |line| line.contains(needle): what is left from the first match on.
RECURSIVE skip_while_not(_, _)
skip_while_not(lines, needle) ==
    IF lines = <<>> THEN <<>>
    ELSE IF contains(Head(lines), needle) THEN lines
    ELSE skip_while_not(Tail(lines), needle)

\* A search that hands back the iterator it was given, the matched line and
\* those before it included.
get_line_NotConsumed(lines, needle) ==
    LET rest == skip_while_not(lines, needle) IN
    IF rest = <<>> THEN Panic
    ELSE [tag |-> "Ok", lines |-> lines, value |-> Head(rest)]

\* get_line: the first matching line and the iterator past it, or the panic
\* of expect when the iterator ends first.
get_line(lines, needle) ==
    LET rest == skip_while_not(lines, needle) IN
    IF rest = <<>> THEN Panic
    ELSE [tag |-> "Ok", lines |-> Tail(rest), value |-> Head(rest)]

\* get_nth_from_line
get_nth_from_line(lines, needle, nth) ==
    LET found == get_line(lines, needle) IN
    IF found.tag = "Panic" THEN Panic
    ELSE LET word == line_nth(found.value, nth) IN
         IF word.tag = "Panic" THEN Panic
         ELSE [tag |-> "Ok", lines |-> found.lines, value |-> word.value]

\* The text the callers search for, and lines of the tools they search.
\* "Absolute upper-left X:"
Needle_X ==
    <<"A", "b", "s", "o", "l", "u", "t", "e", " ", "u", "p", "p", "e", "r", "-", "l", "e",
      "f", "t", " ", "X", ":">>

\* "Absolute upper-left Y:"
Needle_Y ==
    <<"A", "b", "s", "o", "l", "u", "t", "e", " ", "u", "p", "p", "e", "r", "-", "l", "e",
      "f", "t", " ", "Y", ":">>

\* "Width:"
Needle_Width ==
    <<"W", "i", "d", "t", "h", ":">>

\* "Height:"
Needle_Height ==
    <<"H", "e", "i", "g", "h", "t", ":">>

\* "screen #0"
Needle_screen ==
    <<"s", "c", "r", "e", "e", "n", " ", "#", "0">>

\* "dimensions:"
Needle_dimensions ==
    <<"d", "i", "m", "e", "n", "s", "i", "o", "n", "s", ":">>

\* "_NET_ACTIVE_WINDOW"
Needle_active ==
    <<"_", "N", "E", "T", "_", "A", "C", "T", "I", "V", "E", "_", "W", "I", "N", "D", "O",
      "W">>

\* "  Absolute upper-left X:  10"
Win_X ==
    <<" ", " ", "A", "b", "s", "o", "l", "u", "t", "e", " ", "u", "p", "p", "e", "r", "-",
      "l", "e", "f", "t", " ", "X", ":", " ", " ", "1", "0">>

\* "  Absolute upper-left Y:  20"
Win_Y ==
    <<" ", " ", "A", "b", "s", "o", "l", "u", "t", "e", " ", "u", "p", "p", "e", "r", "-",
      "l", "e", "f", "t", " ", "Y", ":", " ", " ", "2", "0">>

\* "  Width: 1024"
Win_Width ==
    <<" ", " ", "W", "i", "d", "t", "h", ":", " ", "1", "0", "2", "4">>

\* "  Height: 768"
Win_Height ==
    <<" ", " ", "H", "e", "i", "g", "h", "t", ":", " ", "7", "6", "8">>

\* "  Width:"
Win_WidthOnly ==
    <<" ", " ", "W", "i", "d", "t", "h", ":">>

\* "screen #0:"
Dpy_screen0 ==
    <<"s", "c", "r", "e", "e", "n", " ", "#", "0", ":">>

\* "  dimensions:    1920x1080 pixels"
Dpy_dimensions ==
    <<" ", " ", "d", "i", "m", "e", "n", "s", "i", "o", "n", "s", ":", " ", " ", " ", " ",
      "1", "9", "2", "0", "x", "1", "0", "8", "0", " ", "p", "i", "x", "e", "l", "s">>

\* "number of screens:    1"
Dpy_screens ==
    <<"n", "u", "m", "b", "e", "r", " ", "o", "f", " ", "s", "c", "r", "e", "e", "n", "s",
      ":", " ", " ", " ", " ", "1">>

\* "screen #1:"
Dpy_screen1 ==
    <<"s", "c", "r", "e", "e", "n", " ", "#", "1", ":">>

\* "  dimensions:    800x600 pixels"
Dpy_dimensions1 ==
    <<" ", " ", "d", "i", "m", "e", "n", "s", "i", "o", "n", "s", ":", " ", " ", " ", " ",
      "8", "0", "0", "x", "6", "0", "0", " ", "p", "i", "x", "e", "l", "s">>

\* "_NET_ACTIVE_WINDOW(WINDOW): window id # 0x3e00004"
Prop_active ==
    <<"_", "N", "E", "T", "_", "A", "C", "T", "I", "V", "E", "_", "W", "I", "N", "D", "O",
      "W", "(", "W", "I", "N", "D", "O", "W", ")", ":", " ", "w", "i", "n", "d", "o", "w",
      " ", "i", "d", " ", "#", " ", "0", "x", "3", "e", "0", "0", "0", "0", "4">>

\* "_NET_ACTIVE_WINDOW:  not found."
Prop_none ==
    <<"_", "N", "E", "T", "_", "A", "C", "T", "I", "V", "E", "_", "W", "I", "N", "D", "O",
      "W", ":", " ", " ", "n", "o", "t", " ", "f", "o", "u", "n", "d", ".">>

\* "_NET_NUMBER_OF_DESKTOPS(CARDINAL) = 4"
Prop_other ==
    <<"_", "N", "E", "T", "_", "N", "U", "M", "B", "E", "R", "_", "O", "F", "_", "D", "E",
      "S", "K", "T", "O", "P", "S", "(", "C", "A", "R", "D", "I", "N", "A", "L", ")", " ",
      "=", " ", "4">>

WinLines == {Win_X, Win_Y, Win_Width, Win_Height, Win_WidthOnly}
DpyLines == {Dpy_screen0, Dpy_dimensions, Dpy_screens, Dpy_screen1, Dpy_dimensions1}
PropLines == {Prop_active, Prop_none, Prop_other}

\* The lines and the searches get_nth_from_line is tried on by itself.
SomeLines == {Win_X, Win_Width, Win_Height}
Needles == {Needle_X, Needle_Width, Needle_Height}

\* The longest input and the greatest position of those trials.
MaxIn == 3
MaxNth == 5

\* The longest output of xwininfo and of xdpyinfo, and of xprop.
MaxOut == 5
MaxProp == 2

-----------------------------------------------------------------------------
(* x11_screen, x11_fullscreen, x11_current_window, main.rs:111-147 *)

\* A screen reference that leaves out the screen number.
x11_screen_Bare(DISPLAY) ==
    IF DISPLAY.set THEN [tag |-> "Ok", value |-> DISPLAY.value] ELSE Panic

\* x11_screen: format!("{}.0", var("DISPLAY").expect(..))
x11_screen(DISPLAY) ==
    IF DISPLAY.set
    THEN [tag |-> "Ok", value |-> DISPLAY.value \o <<".", "0">>]
    ELSE Panic

\* The pair x11_fullscreen returns, main.rs:116.
fullscreen_region(dimensions, screen) ==
    [resolution |-> dimensions, offset |-> screen \o <<"+", "0", ",", "0">>]

\* The pair x11_current_window returns, main.rs:128-131.
window_region(width, height, screen, xpos, ypos) ==
    [resolution |-> width \o <<"x">> \o height,
     offset |-> screen \o <<"+">> \o xpos \o <<",">> \o ypos]

\* The display identifiers DISPLAY may hold.
Displays == {<<":", "0">>, <<":", "1">>}

-----------------------------------------------------------------------------
(* The components share no state (each query is independent): a specification
   of one component holds the variables of the others at these values. *)

ParseIdle ==
    /\ p_input = <<>>
    /\ p_out = <<>>
    /\ p_last = [line |-> <<>>, out |-> None]
    /\ p_st = "idle"

CodecIdle ==
    /\ fc_listing = <<>>
    /\ fc_names = <<>>
    /\ fc_filter = "encode"
    /\ fc_codecs = <<>>
    /\ fc_found = <<>>
    /\ fc_pc = "idle"
    /\ fc_result = None

WhichIdle ==
    /\ w_PATH = Unset
    /\ w_fs = {}
    /\ w_call = NoCall

LineIdle ==
    /\ l_lines = <<>>
    /\ l_call = NoCall
    /\ l_st = "idle"

RegionIdle ==
    /\ r_region = "Screen"
    /\ r_DISPLAY = Unset
    /\ r_pc = "idle"
    /\ r_output = <<>>
    /\ r_lines = <<>>
    /\ r_tok = <<>>
    /\ r_result = None

-----------------------------------------------------------------------------
(* FFMPEGSupport::parse, util.rs:192-208: the iterator pulls one line, and
   yields the pair decode_line makes of it, if any. *)

ParseInit ==
    /\ p_input \in SeqUpTo(LinePool, MaxLines)
    /\ p_out = <<>>
    /\ p_last = [line |-> <<>>, out |-> None]
    /\ p_st = "running"
    /\ CodecIdle /\ WhichIdle /\ LineIdle /\ RegionIdle

\* One turn of lines().map(decode_line).filter(is_some).map(unwrap).
ParseLine ==
    /\ p_st = "running"
    /\ p_input # <<>>
    /\ LET r == decode_line(Head(p_input)) IN
       /\ p_last' = [line |-> Head(p_input), out |-> r]
       /\ p_input' = Tail(p_input)
       /\ p_st' = IF r.tag = "Panic" THEN "panicked" ELSE "running"
       /\ p_out' = IF r.tag = "Some"
                   THEN Append(p_out, <<r.support, r.type>>) ELSE p_out
    /\ UNCHANGED <<codecVars, whichVars, lineVars, regionVars>>

\* The child closed its stdout: the iterator ends.
ParseEnd ==
    /\ p_st = "running"
    /\ p_input = <<>>
    /\ p_st' = "done"
    /\ UNCHANGED <<p_input, p_out, p_last>>
    /\ UNCHANGED <<codecVars, whichVars, lineVars, regionVars>>

ParseNext == ParseLine \/ ParseEnd

SpecParse == ParseInit /\ [][ParseNext]_vars

-----------------------------------------------------------------------------
(* find_codec, main.rs:186-208, step by step *)

CodecInit ==
    /\ fc_listing \in SeqUpTo(RecordPool, MaxCodecs)
    /\ fc_names \in CandidateLists
    /\ fc_filter \in {"encode", "decode"}
    /\ fc_codecs = fc_listing
    /\ fc_found = <<>>
    /\ fc_pc = "scan"
    /\ fc_result = None
    /\ ParseIdle /\ WhichIdle /\ LineIdle /\ RegionIdle

\* One turn of the first loop, main.rs:193-199.
Scan ==
    /\ fc_pc = "scan"
    /\ fc_codecs # <<>>
    /\ fc_found' = scan_codec(fc_found, Head(fc_codecs), fc_names, fc_filter)
    /\ fc_codecs' = Tail(fc_codecs)
    /\ UNCHANGED <<fc_listing, fc_names, fc_filter, fc_pc, fc_result>>
    /\ UNCHANGED <<parseVars, whichVars, lineVars, regionVars>>

\* The iterator codecs is exhausted: the first loop ends.
ScanEnd ==
    /\ fc_pc = "scan"
    /\ fc_codecs = <<>>
    /\ fc_pc' = "walk"
    /\ UNCHANGED <<fc_listing, fc_names, fc_filter, fc_codecs, fc_found, fc_result>>
    /\ UNCHANGED <<parseVars, whichVars, lineVars, regionVars>>

\* The second loop and the return, main.rs:201-207.  found.remove takes the
\* entry returned out of the map.
Walk ==
    /\ fc_pc = "walk"
    /\ fc_result' = walk(fc_found, fc_names)
    /\ fc_found' =
         LET hit == {i \in 1..Len(fc_names) : fc_names[i] \in DOMAIN fc_found} IN
         IF hit = {} THEN fc_found
         ELSE LET first == fc_names[CHOOSE i \in hit : \A j \in hit : i <= j]
              IN  [x \in DOMAIN fc_found \ {first} |-> fc_found[x]]
    /\ fc_pc' = "done"
    /\ UNCHANGED <<fc_listing, fc_names, fc_filter, fc_codecs>>
    /\ UNCHANGED <<parseVars, whichVars, lineVars, regionVars>>

CodecNext == Scan \/ ScanEnd \/ Walk

SpecCodec == CodecInit /\ [][CodecNext]_vars

-----------------------------------------------------------------------------
(* which, called in some environment *)

WhichInit ==
    /\ w_PATH \in {Unset} \cup
                  {Set(v) : v \in SeqUpTo(Prefixes, MaxPathDirs) \ {<<>>}}
    /\ w_fs \in SUBSET Files
    /\ w_call = NoCall
    /\ ParseIdle /\ CodecIdle /\ LineIdle /\ RegionIdle

\* A call which(binary), as exec! makes it.
Which ==
    /\ \E binary \in Binaries :
          w_call' = [called |-> TRUE, binary |-> binary,
                     out |-> which(binary, w_PATH, w_fs)]
    /\ UNCHANGED <<w_PATH, w_fs>>
    /\ UNCHANGED <<parseVars, codecVars, lineVars, regionVars>>

WhichNext == Which

SpecWhich == WhichInit /\ [][WhichNext]_vars

-----------------------------------------------------------------------------
(* get_nth_from_line, called again and again on the iterator it returns *)

LinesInit ==
    /\ l_lines \in SeqUpTo(SomeLines, MaxIn)
    /\ l_call = NoCall
    /\ l_st = "running"
    /\ ParseIdle /\ CodecIdle /\ WhichIdle /\ RegionIdle

GetNthFromLine ==
    /\ l_st = "running"
    /\ \E needle \in Needles, nth \in 0..MaxNth :
          LET out == get_nth_from_line(l_lines, needle, nth) IN
          /\ l_call' = [called |-> TRUE, lines |-> l_lines, needle |-> needle,
                        nth |-> nth, out |-> out]
          /\ l_st' = IF out.tag = "Panic" THEN "panicked" ELSE "running"
          /\ l_lines' = IF out.tag = "Panic" THEN <<>> ELSE out.lines
    /\ UNCHANGED <<parseVars, codecVars, whichVars, regionVars>>

LinesNext == GetNthFromLine

SpecLines == LinesInit /\ [][LinesNext]_vars

-----------------------------------------------------------------------------
(* x11_region_string, main.rs:102-147, statement by statement.  The output of
   a tool is whatever the tool writes: any listing of its lines. *)

RegionInit ==
    /\ r_region \in {"Screen", "Window"}
    /\ r_DISPLAY \in {Unset} \cup {Set(d) : d \in Displays}
    /\ r_pc = "start"
    /\ r_output = <<>>
    /\ r_lines = <<>>
    /\ r_tok = <<>>
    /\ r_result = None
    /\ ParseIdle /\ CodecIdle /\ WhichIdle /\ LineIdle

\* What a statement `let (lines, word) = get_nth_from_line(lines, .., nth)`
\* does to the resolver: the word is bound under `key` and control moves to
\* `next`, or the process panics.
Extract(needle, nth, key, next) ==
    LET out == get_nth_from_line(r_lines, needle, nth) IN
    /\ r_pc' = IF out.tag = "Panic" THEN "panicked" ELSE next
    /\ r_lines' = IF out.tag = "Panic" THEN r_lines ELSE out.lines
    /\ r_tok' = IF out.tag = "Panic" THEN r_tok ELSE (key :> out.value) @@ r_tok
    /\ UNCHANGED <<r_region, r_DISPLAY, r_output, r_result>>
    /\ UNCHANGED <<parseVars, codecVars, whichVars, lineVars>>

\* main.rs:112: command_output(exec!(xdpyinfo))
ExecXdpyinfo ==
    /\ r_pc = "start" /\ r_region = "Screen"
    /\ \E out \in SeqUpTo(DpyLines, MaxOut) : r_output' = out /\ r_lines' = out
    /\ r_pc' = "screen"
    /\ UNCHANGED <<r_region, r_DISPLAY, r_tok, r_result>>
    /\ UNCHANGED <<parseVars, codecVars, whichVars, lineVars>>

\* main.rs:113: get_line(lines, contains "screen #0"); the line is dropped.
FindScreen ==
    /\ r_pc = "screen"
    /\ LET out == get_line(r_lines, Needle_screen) IN
       /\ r_pc' = IF out.tag = "Panic" THEN "panicked" ELSE "dimensions"
       /\ r_lines' = IF out.tag = "Panic" THEN r_lines ELSE out.lines
    /\ UNCHANGED <<r_region, r_DISPLAY, r_output, r_tok, r_result>>
    /\ UNCHANGED <<parseVars, codecVars, whichVars, lineVars>>

\* main.rs:114
GetDimensions ==
    /\ r_pc = "dimensions"
    /\ Extract(Needle_dimensions, 1, "dimensions", "fullscreen")

\* main.rs:116
ReturnFullscreen ==
    /\ r_pc = "fullscreen"
    /\ LET screen == x11_screen(r_DISPLAY) IN
       /\ r_pc' = IF screen.tag = "Panic" THEN "panicked" ELSE "done"
       /\ r_result' = IF screen.tag = "Panic" THEN None
                      ELSE [tag |-> "Some",
                            value |-> fullscreen_region(r_tok["dimensions"],
                                                        screen.value)]
    /\ UNCHANGED <<r_region, r_DISPLAY, r_output, r_lines, r_tok>>
    /\ UNCHANGED <<parseVars, codecVars, whichVars, lineVars>>

\* main.rs:136, in x11_window: command_output(exec!(xprop -root))
ExecXprop ==
    /\ r_pc = "start" /\ r_region = "Window"
    /\ \E out \in SeqUpTo(PropLines, MaxProp) : r_output' = out /\ r_lines' = out
    /\ r_pc' = "window_id"
    /\ UNCHANGED <<r_region, r_DISPLAY, r_tok, r_result>>
    /\ UNCHANGED <<parseVars, codecVars, whichVars, lineVars>>

\* main.rs:137-138
GetWindowId ==
    /\ r_pc = "window_id"
    /\ Extract(Needle_active, 4, "window_id", "xwininfo")

\* main.rs:122: command_output(exec!(xwininfo -id (window_id)))
ExecXwininfo ==
    /\ r_pc = "xwininfo"
    /\ \E out \in SeqUpTo(WinLines, MaxOut) : r_output' = out /\ r_lines' = out
    /\ r_pc' = "xpos"
    /\ UNCHANGED <<r_region, r_DISPLAY, r_tok, r_result>>
    /\ UNCHANGED <<parseVars, codecVars, whichVars, lineVars>>

\* main.rs:123
GetXpos == r_pc = "xpos" /\ Extract(Needle_X, 3, "xpos", "ypos")

\* main.rs:124
GetYpos == r_pc = "ypos" /\ Extract(Needle_Y, 3, "ypos", "width")

\* main.rs:125
GetWidth == r_pc = "width" /\ Extract(Needle_Width, 1, "width", "height")

\* main.rs:126
GetHeight == r_pc = "height" /\ Extract(Needle_Height, 1, "height", "window")

\* main.rs:128-131
ReturnWindow ==
    /\ r_pc = "window"
    /\ LET screen == x11_screen(r_DISPLAY) IN
       /\ r_pc' = IF screen.tag = "Panic" THEN "panicked" ELSE "done"
       /\ r_result' = IF screen.tag = "Panic" THEN None
                      ELSE [tag |-> "Some",
                            value |-> window_region(r_tok["width"], r_tok["height"],
                                                    screen.value,
                                                    r_tok["xpos"], r_tok["ypos"])]
    /\ UNCHANGED <<r_region, r_DISPLAY, r_output, r_lines, r_tok>>
    /\ UNCHANGED <<parseVars, codecVars, whichVars, lineVars>>

RegionNext ==
    \/ ExecXdpyinfo \/ FindScreen \/ GetDimensions \/ ReturnFullscreen
    \/ ExecXprop \/ GetWindowId \/ ExecXwininfo
    \/ GetXpos \/ GetYpos \/ GetWidth \/ GetHeight \/ ReturnWindow

SpecRegion == RegionInit /\ [][RegionNext]_vars

-----------------------------------------------------------------------------
(* What the claims are stated with: the text as a reader sees it, by
   characters and positions, apart from the operators that model the code. *)

Least(S) == CHOOSE i \in S : \A j \in S : i <= j
Greatest(S) == CHOOSE i \in S : \A j \in S : j <= i

\* The words of a line, read off its characters: a word starts at a
\* non-whitespace character that opens the line or follows whitespace, and
\* runs to the last character before the next whitespace.
WordStarts(line) ==
    {i \in 1..Len(line) :
        ~is_whitespace(line[i]) /\ (i = 1 \/ is_whitespace(line[i - 1]))}

WordEnd(line, i) ==
    Least({j \in i..Len(line) : j = Len(line) \/ is_whitespace(line[j + 1])})

\* The word at zero-based position n, for n < Cardinality(WordStarts(line)).
WordAt(line, n) ==
    LET i == CHOOSE k \in WordStarts(line) :
                Cardinality({m \in WordStarts(line) : m < k}) = n
    IN  SubSeq(line, i, WordEnd(line, i))

NumWords(line) == Cardinality(WordStarts(line))

\* The first position after `from` of a line containing the needle, 0 if none.
FirstAfter(lines, needle, from) ==
    LET hits == {i \in (from + 1)..Len(lines) : contains(lines[i], needle)} IN
    IF hits = {} THEN 0 ELSE Least(hits)

-----------------------------------------------------------------------------
(* Claims about the capability parser *)

\* The code of a line as the listing's reader sees it: the first
\* whitespace-delimited token.
CodeOf(line) == WordAt(line, 0)

\* C3 as stated: decoding "V....D 264,h264          H.264 / AVC" yields names
\* ["264", "h264"], kind Video, supportsDecode = true, supportsEncode = false.
C3_Original ==
    p_last.line = Line_h264 =>
        /\ p_last.out.tag = "Some"
        /\ p_last.out.support.names = <<<<"2", "6", "4">>, <<"h", "2", "6", "4">>>>
        /\ p_last.out.type = "Video"
        /\ p_last.out.support.decode = TRUE
        /\ p_last.out.support.encode = FALSE

\* C3 amended: decoding that line yields names ["264", "h264"], kind Video,
\* supportsDecode = false (character 0 of the code is 'V', not 'D') and
\* supportsEncode = false.
C3_Decoded ==
    p_last.line = Line_h264 =>
        /\ p_last.out.tag = "Some"
        /\ p_last.out.support.names = <<<<"2", "6", "4">>, <<"h", "2", "6", "4">>>>
        /\ p_last.out.type = "Video"
        /\ p_last.out.support.description =
             <<"H", ".", "2", "6", "4", " ", "/", " ", "A", "V", "C">>
        /\ p_last.out.support.decode = FALSE
        /\ p_last.out.support.encode = FALSE

C3_Witness ==
    /\ p_last.line = Line_h264
    /\ p_last.out.tag = "Some"
    /\ p_out # <<>>

\* C4: for every line decode_line turns into a record, a Format row supports
\* decode iff its code contains 'D' and encode iff it contains 'E'; a row of
\* any other kind supports decode iff character 0 of its code is 'D' and
\* encode iff character 1 is 'E' ("D.V..." decodes, ".EV..." encodes).
C4_Flags ==
    p_last.out.tag = "Some" =>
        LET code == CodeOf(p_last.line)
            s == p_last.out.support
        IN  /\ p_last.out.type = "Format" =>
                /\ s.decode <=> (\E i \in 1..Len(code) : code[i] = "D")
                /\ s.encode <=> (\E i \in 1..Len(code) : code[i] = "E")
            /\ p_last.out.type # "Format" =>
                /\ s.decode <=> (code[1] = "D")
                /\ s.encode <=> (code[2] = "E")
            /\ code = <<"D", ".", "V", ".", ".", ".">> => s.decode
            /\ code = <<".", "E", "V", ".", ".", ".">> => s.encode

C4_Witness ==
    /\ p_last.out.tag = "Some"
    /\ p_last.out.type = "Video"
    /\ CodeOf(p_last.line) = <<"D", ".", "V", ".", ".", ".">>
    /\ p_last.out.support.decode
    /\ ~p_last.out.support.encode

\* The kind the listing's format gives a code, read by characters: "D", "E"
\* and "DE" are Format; a code of exactly 6 characters is Audio, Video or
\* Subtitle by characters 0 and 2, in that precedence; any other code is no
\* data row.
KindOf(code) ==
    IF code \in {<<"D">>, <<"E">>, <<"D", "E">>} THEN "Format"
    ELSE IF Len(code) # 6 THEN "NoRow"
    ELSE IF code[1] = "A" \/ code[3] = "A" THEN "Audio"
    ELSE IF code[1] = "V" \/ code[3] = "V" THEN "Video"
    ELSE IF code[1] = "S" \/ code[3] = "S" THEN "Subtitle"
    ELSE "NoRow"

\* A line with a code, a whitespace boundary, names, and a second boundary.
HasBothBoundaries(line) == NumWords(line) >= 3

\* C5: decode_line yields a record or no record on every line and never
\* aborts the parse; a line that lacks either whitespace boundary, or whose
\* code is no Format code and no 6-character code with a kind marker, yields
\* no record, and the parse goes on with the lines that follow.
C5_Tolerant ==
    /\ p_st # "panicked"
    /\ p_last.out.tag \in {"Some", "None"}
    /\ (p_last.line # <<>> /\ ~HasBothBoundaries(p_last.line))
          => p_last.out.tag = "None"
    /\ (HasBothBoundaries(p_last.line) /\ KindOf(CodeOf(p_last.line)) = "NoRow")
          => p_last.out.tag = "None"

\* C10: "D", "E" and "DE" are Format; any other code is classified only if it
\* is exactly 6 characters long, by characters 0 and 2 with the precedence
\* Audio, Video, Subtitle; every other code is rejected and gives no record.
C10_Classified ==
    HasBothBoundaries(p_last.line) =>
        LET kind == KindOf(CodeOf(p_last.line)) IN
        IF kind = "NoRow"
        THEN p_last.out.tag = "None"
        ELSE p_last.out.tag = "Some" /\ p_last.out.type = kind

-----------------------------------------------------------------------------
(* Claims about the codec selector *)

\* The positions of the listing whose record carries candidate n as an alias
\* and satisfies the filter.
Matching(n) ==
    {i \in 1..Len(fc_listing) :
        /\ \E a \in 1..Len(fc_listing[i].names) : fc_listing[i].names[a] = n
        /\ IF fc_filter = "encode" THEN fc_listing[i].encode ELSE fc_listing[i].decode}

\* The positions of the candidate list whose name has a matching record.
Matched == {j \in 1..Len(fc_names) : Matching(fc_names[j]) # {}}

\* C1: find_codec returns the canonical name (first alias) of the record
\* remembered (the last one in the listing) for the earliest candidate that
\* has a record carrying it and satisfying the filter, and none exactly when
\* no record carries a candidate while satisfying the filter; with the
\* candidates of main.rs:64 and only the encode-capable records libx264 and
\* h264 listed, it returns libx264.
C1_Selected ==
    fc_pc = "done" =>
        /\ (fc_result = None) <=> (Matched = {})
        /\ Matched # {} =>
             LET n == fc_names[Least(Matched)] IN
             fc_result =
                [tag |-> "Some", value |-> fc_listing[Greatest(Matching(n))].names[1]]
        /\ fc_listing = <<>> => fc_result = None
        /\ ( /\ fc_names = VideoCandidates
             /\ fc_filter = "encode"
             /\ fc_listing \in {<<R_libx264, R_h264>>, <<R_h264, R_libx264>>} )
           => fc_result = [tag |-> "Some", value |-> N_libx264]

C1_Witness ==
    /\ fc_pc = "done"
    /\ fc_names = VideoCandidates
    /\ fc_filter = "encode"
    /\ fc_listing = <<R_libx264, R_h264>>
    /\ fc_result = [tag |-> "Some", value |-> N_libx264]

\* The orderings of the listing.
Orderings ==
    {[i \in 1..Len(fc_listing) |-> fc_listing[p[i]]] :
        p \in {q \in [1..Len(fc_listing) -> 1..Len(fc_listing)] :
                 \A i, j \in 1..Len(fc_listing) : q[i] = q[j] => i = j}}

\* C2 as stated: for any two orderings of the same records, with the same
\* candidates and filter, find_codec returns the same result.
C2_Original ==
    fc_pc = "done" =>
        \A other \in Orderings : find_codec(other, fc_names, fc_filter) = fc_result

\* No candidate is carried by two records that satisfy the filter and differ
\* in their canonical name.
OneCanonicalNamePerCandidate ==
    \A j \in 1..Len(fc_names) :
        \A a, b \in Matching(fc_names[j]) :
            fc_listing[a].names[1] = fc_listing[b].names[1]

\* C2 amended: for any two orderings of the same records, with the same
\* candidates and filter, find_codec returns none for both or a name for
\* both, and the same name whenever no candidate is carried by two
\* filter-satisfying records of different canonical names (of several records
\* carrying the selected candidate, the one listed last gives the name).
C2_OrderFree ==
    fc_pc = "done" =>
        \A other \in Orderings :
            LET r == find_codec(other, fc_names, fc_filter) IN
            /\ r.tag = fc_result.tag
            /\ OneCanonicalNamePerCandidate => r = fc_result

C2_Witness ==
    /\ fc_pc = "done"
    /\ fc_names = VideoCandidates
    /\ fc_filter = "encode"
    /\ fc_listing = <<R_h264, R_nvenc_decoder, R_libx264>>
    /\ fc_result = [tag |-> "Some", value |-> N_libx264]

-----------------------------------------------------------------------------
(* Claims about executable resolution *)

\* prefix/name for a relative name: the components of the prefix, then those
\* of the name.
Under(prefix, binary) == prefix \o binary

\* The PATH positions whose directory holds the name.
Holding(binary) ==
    IF w_PATH.set
    THEN {i \in 1..Len(w_PATH.value) :
            Canonical(Under(w_PATH.value[i], binary)) \in w_fs}
    ELSE {}

\* C7: for a name that is not an existing current-directory-relative path,
\* which returns a command for prefix/name of the first PATH directory, in
\* list order, where it exists (of two directories holding the name the
\* earlier wins), and none when no directory holds it or PATH is unset.
C7_PathOrder ==
    ( /\ w_call.called
      /\ ~is_absolute(w_call.binary)
      /\ ~(w_call.binary[1] = "." /\ Canonical(w_call.binary) \in w_fs) )
    => LET hold == Holding(w_call.binary) IN
       /\ hold = {} => w_call.out = None
       /\ hold # {} =>
            w_call.out = [tag |-> "Some",
                          value |-> Under(w_PATH.value[Least(hold)], w_call.binary)]
       /\ ~w_PATH.set => w_call.out = None

C7_Witness ==
    /\ w_call.called
    /\ w_call.binary = <<"ffmpeg">>
    /\ w_PATH = Set(<<<<"/", "opt", "bin">>, <<"/", "usr", "bin">>>>)
    /\ {<<"/", "usr", "bin", "ffmpeg">>, <<"/", "opt", "bin", "ffmpeg">>} \subseteq w_fs
    /\ w_call.out = [tag |-> "Some", value |-> <<"/", "opt", "bin", "ffmpeg">>]

-----------------------------------------------------------------------------
(* Claims about the line matcher *)

\* C6: get_nth_from_line returns the word at zero-based position n of the
\* first line satisfying the predicate, with the lines that followed that
\* line, in order, as the remaining sequence; it aborts when no line matches
\* or the matched line has fewer than n+1 words ("  Width: 1024": position 1
\* gives "1024", position 5 fails).
C6_NthOfFirstMatch ==
    l_call.called =>
        LET i == FirstAfter(l_call.lines, l_call.needle, 0) IN
        /\ IF i = 0 \/ NumWords(l_call.lines[i]) < l_call.nth + 1
           THEN l_call.out = Panic /\ l_st = "panicked"
           ELSE /\ l_call.out.tag = "Ok"
                /\ l_call.out.value = WordAt(l_call.lines[i], l_call.nth)
                /\ l_call.out.lines = SubSeq(l_call.lines, i + 1, Len(l_call.lines))
                /\ l_lines = l_call.out.lines
        /\ (i # 0 /\ l_call.lines[i] = Win_Width /\ l_call.nth = 1)
              => l_call.out.value = <<"1", "0", "2", "4">>
        /\ (i # 0 /\ l_call.lines[i] = Win_Width /\ l_call.nth = 5)
              => l_call.out = Panic

C6_Witness ==
    /\ l_call.called
    /\ l_call.lines = <<Win_Height, Win_Width, Win_X>>
    /\ l_call.needle = Needle_Width
    /\ l_call.nth = 1
    /\ l_call.out = [tag |-> "Ok", lines |-> <<Win_X>>, value |-> <<"1", "0", "2", "4">>]

-----------------------------------------------------------------------------
(* Claims about the region resolver *)

\* C8: whenever x11_fullscreen returns, the resolution is the second word of
\* the dimensions line of the primary screen, which the code takes to be the
\* first line containing "dimensions:" after the first line containing
\* "screen #0", and the offset is the display identifier followed by
\* ".0+0,0"; a line "  dimensions:    1920x1080 pixels" and display ":0" give
\* "1920x1080" and ":0.0+0,0".
C8_Fullscreen ==
    (r_region = "Screen" /\ r_pc = "done") =>
        LET s == FirstAfter(r_output, Needle_screen, 0)
            d == FirstAfter(r_output, Needle_dimensions, s)
        IN  /\ s # 0 /\ d # 0
            /\ r_DISPLAY.set
            /\ r_result.tag = "Some"
            /\ r_result.value.resolution = WordAt(r_output[d], 1)
            /\ r_result.value.offset =
                 r_DISPLAY.value \o <<".", "0", "+", "0", ",", "0">>
            /\ (r_output[d] = Dpy_dimensions /\ r_DISPLAY.value = <<":", "0">>)
                 => r_result.value =
                      [resolution |-> <<"1", "9", "2", "0", "x", "1", "0", "8", "0">>,
                       offset |-> <<":", "0", ".", "0", "+", "0", ",", "0">>]

C8_Witness ==
    /\ r_region = "Screen" /\ r_pc = "done"
    /\ r_output = <<Dpy_screens, Dpy_screen0, Dpy_dimensions, Dpy_screen1>>
    /\ r_DISPLAY = Set(<<":", "0">>)
    /\ r_result.value.resolution = <<"1", "9", "2", "0", "x", "1", "0", "8", "0">>
    /\ r_result.value.offset = <<":", "0", ".", "0", "+", "0", ",", "0">>

\* x11_current_window has run on a window-information output to its end.
WindowResolved ==
    /\ r_region = "Window"
    /\ "window_id" \in DOMAIN r_tok
    /\ r_pc \in {"done", "panicked"}

\* The output holds a line with the label that carries word n of it.
Present(needle, n) ==
    \E i \in 1..Len(r_output) :
        contains(r_output[i], needle) /\ NumWords(r_output[i]) > n

AllPresent ==
    /\ Present(Needle_X, 3)
    /\ Present(Needle_Y, 3)
    /\ Present(Needle_Width, 1)
    /\ Present(Needle_Height, 1)

\* C9 as stated: x11_current_window aborts if and only if one of the labelled
\* lines (absolute upper-left X, Y, Width, Height) or its required word (4th,
\* 4th, 2nd, 2nd) is absent from the output; otherwise it returns
\* "<width>x<height>" and "<display>+<x>,<y>" built from those four words.
C9_Original ==
    (WindowResolved /\ r_DISPLAY.set) =>
        /\ (r_pc = "panicked") <=> ~AllPresent
        /\ r_pc = "panicked" => r_result = None
        /\ r_pc = "done" => r_result.tag = "Some"

\* The lines the resolver takes its four words from: the first X line, the
\* first Y line after it, the first Width line after that, the first Height
\* line after that; 0 where there is none.
AtX == FirstAfter(r_output, Needle_X, 0)
AtY == IF AtX = 0 THEN 0 ELSE FirstAfter(r_output, Needle_Y, AtX)
AtWidth == IF AtY = 0 THEN 0 ELSE FirstAfter(r_output, Needle_Width, AtY)
AtHeight == IF AtWidth = 0 THEN 0 ELSE FirstAfter(r_output, Needle_Height, AtWidth)

FoundInOrder ==
    /\ AtX # 0 /\ NumWords(r_output[AtX]) > 3
    /\ AtY # 0 /\ NumWords(r_output[AtY]) > 3
    /\ AtWidth # 0 /\ NumWords(r_output[AtWidth]) > 1
    /\ AtHeight # 0 /\ NumWords(r_output[AtHeight]) > 1

\* C9 amended: x11_current_window aborts if and only if the in-order search
\* fails, or DISPLAY is unset: the first line containing "Absolute upper-left
\* X:", the first line after it containing "Absolute upper-left Y:", the
\* first line after that containing "Width:" and the first line after that
\* containing "Height:" must each exist and carry its word (4th, 4th, 2nd,
\* 2nd).  So it aborts whenever a labelled line or its word is absent, and
\* also when the lines are all present but out of that order or the first
\* match lacks its word.  Otherwise it returns "<width>x<height>" and
\* "<display>.0+<x>,<y>" built from exactly those four words; it never
\* returns a partial descriptor.
C9_AllOrNothing ==
    WindowResolved =>
        /\ (r_pc = "panicked") <=> (~FoundInOrder \/ ~r_DISPLAY.set)
        /\ ~AllPresent => r_pc = "panicked"
        /\ r_pc = "panicked" => r_result = None
        /\ r_pc = "done" =>
             r_result =
               [tag |-> "Some",
                value |->
                  [resolution |-> WordAt(r_output[AtWidth], 1) \o <<"x">>
                                    \o WordAt(r_output[AtHeight], 1),
                   offset |-> r_DISPLAY.value \o <<".", "0", "+">>
                                \o WordAt(r_output[AtX], 3) \o <<",">>
                                \o WordAt(r_output[AtY], 3)]]

C9_Witness ==
    /\ WindowResolved
    /\ r_pc = "done"
    /\ r_output = <<Win_X, Win_Y, Win_Width, Win_Height>>
    /\ r_DISPLAY = Set(<<":", "0">>)
    /\ r_result.value.resolution = <<"1", "0", "2", "4", "x", "7", "6", "8">>
    /\ r_result.value.offset = <<":", "0", ".", "0", "+", "1", "0", ",", "2", "0">>

====
